---- MODULE Spec2Model ----
(***************************************************************************)
(* Model of the probe-engine slice:                                        *)
(*   - experiment/tor/tor.go: measurer.measure, measurer.measureTargets    *)
(*     and resultsCollector.measureSingleTarget (two worker goroutines     *)
(*     fed through an unbuffered channel, a WaitGroup barrier, a mutex     *)
(*     around the result map and atomic counters);                         *)
(*   - experiment/experiment.go: the report lifecycle of Experiment        *)
(*     (OpenReport, CloseReport, SubmitMeasurement), Measure and           *)
(*     SaveMeasurement.                                                    *)
(*   - resources (resources_test.go:161-254): Client.Ensure and            *)
(*     Client.EnsureForSingleResource, the hash-checked cache of           *)
(*     downloaded files.                                                   *)
(* The parts have separate specifications, each leaving the other parts'   *)
(* variables at their initial values:                                      *)
(*   SpecTor      one call of measure, byte counts abstracted to 0         *)
(*   SpecBytes    one call of measure, byte counts varying                 *)
(*   FairSpecTor  SpecTor with weakly fair goroutines                      *)
(*   SpecExp      the operations of one Experiment                         *)
(*   SpecRes      calls of Ensure and EnsureForSingleResource on one       *)
(*                working directory                                        *)
(* Where a definition is preceded by a variant of itself, the variant is   *)
(* the same code with one plausible fault; no specification uses it.       *)
(***************************************************************************)
EXTENDS Integers, Sequences, FiniteSets, TLC

\* ------------------------------------------------------------------ bounds

\* Largest number of targets the target list holds.
MaxTargets == 3

\* Largest SentBytes / ReceivedBytes a single probe reports.
MaxBytes == 1

\* Largest number of operations invoked on one Experiment.
MaxOps == 5

\* Number of entries of the resource catalog.
MaxResources == 2

\* Largest number of calls made on one resources.Client, plus changes
\* other programs make to its working directory.
MaxResOps == 2

\* ------------------------------------------------------- program constants

\* tor.go:93  const parallelism = 2
\* (variant: one worker too many)
parallelismOffByOne == 2 + 1
parallelism == 2

Nil == "nil"

Keys == 1..MaxTargets
Workers == 1..parallelism
ByteCounts == 0..MaxBytes

\* The errors a probe (flexibleConnect) can return, besides Nil.
ErrEOF == "eof"
ErrCtx == "context canceled"
ErrQuery == "query failed"

\* ------------------------------------------------------------------- state

VARIABLES
    \* --- tor: environment
    targets,        \* key set of the target list testlists.Query returns
    origDone,       \* the caller's context (origCtx) is cancelled
    timerFired,     \* the 60 s timer of context.WithTimeout has fired
    traffic,        \* the byte counts a probe of this run may report
    \* --- tor: measurer.measure / measureTargets (the calling goroutine)
    mpc,            \* position of the caller
    mtctx,          \* the context handed to measureTargets (its ctx parameter)
    spawned,        \* loop counter i of the goroutine-spawning loop
    unsent,         \* keys the range loop has not sent yet
    chClosed,       \* close(workch) has run
    wg,             \* counter of the sync.WaitGroup
    retErr,         \* value returned by measure
    testKeys,       \* measurement.TestKeys
    dataUsage,      \* the OnDataUsage calls made: <<received, sent>>, in KiB
    \* --- tor: resultsCollector
    targetresults,  \* rc.targetresults: key -> TargetResults
    mu,             \* rc.mu: 0 when free, else the worker holding it
    sentBytes,      \* rc.sentBytes
    receivedBytes,  \* rc.receivedBytes
    completed,      \* rc.completed
    progress,       \* the OnProgress calls made, in call order
    \* --- tor: the worker goroutines
    wpc,            \* position of each worker
    wkt,            \* kt.key the worker holds (0 when none)
    wtk,            \* tk, err returned by flexibleConnect to the worker
    wsofar,         \* the worker's local sofar
    \* --- tor: ghosts
    probed,         \* key -> what flexibleConnect returned for it, and
                    \* whether its context was done when it returned
    \* --- experiment: Experiment and its collector
    Report,         \* e.Report: <<>> when nil, else <<ID>>
    openCalls,      \* remote open calls made (Session.OpenReport)
    closeCalls,     \* remote close calls made (Report.Close)
    submitCalls,    \* remote submit calls made (Report.SubmitMeasurement)
    lastOp,         \* the operation invoked last
    lastErr,        \* the error it returned
    nops,           \* number of operations invoked
    prevReport,     \* ghost: e.Report when the last operation was invoked
    lastRemote,     \* ghost: outcome of the remote call the last operation
                    \* made: "none", "ok" or "failed"
    measurement,    \* the envelope the last Measure returned
    lastFn,         \* ghost: what the measurement function of the last
                    \* Measure did
    file,           \* content of the file at filePath, a sequence of tokens
    file0,          \* ghost: its content before the first operation
    saved,          \* ghost: the data written by the successful
                    \* SaveMeasurement calls, in call order
    torn,           \* ghost: a failed SaveMeasurement has written to the file
    \* --- resources: Client and its working directory
    files,          \* name -> the file WorkDir/name
    rpc,            \* "idle", or "ensure" inside the loop of Ensure
    pending,        \* catalog entries the loop of Ensure has not visited
    resOp,          \* the call made last
    resErr,         \* the error it returned
    rops,           \* number of calls and outside changes so far
    fetched,        \* ghost: name -> FetchAndVerify calls of the last call
    files0,         \* ghost: the files when the last call was made
    lastCall        \* ghost: name, injected functions and outcomes of the
                    \* last EnsureForSingleResource

torvars == <<targets, origDone, timerFired, traffic, mpc, mtctx, spawned, unsent,
             chClosed, wg, retErr, testKeys, dataUsage, targetresults, mu,
             sentBytes, receivedBytes, completed, progress, wpc, wkt, wtk,
             wsofar, probed>>

reportvars == <<Report, openCalls, closeCalls, submitCalls>>
measurevars == <<measurement, lastFn>>
filevars == <<file, file0, saved, torn>>

expvars == <<reportvars, lastOp, lastErr, nops, prevReport, lastRemote,
             measurevars, filevars>>

resvars == <<files, rpc, pending, resOp, resErr, rops, fetched, files0,
             lastCall>>

vars == <<torvars, expvars, resvars>>

\* ---------------------------------------------------------------- helpers

NoTk == [err |-> Nil, sent |-> 0, recv |-> 0]

\* measure has not returned yet
NotReturned == "not returned"

\* measurement.TestKeys before it is assigned (a nil interface)
NilTestKeys == [Set |-> FALSE, Targets |-> <<>>]

\* context.WithTimeout(origCtx, 60s): the child is done when the parent is
\* cancelled or the timer has fired; origCtx is done only when cancelled.
CtxDone(c) ==
    IF c = "ctx" THEN origDone \/ timerFired ELSE origDone

\* tor.go:68  testlists.Query(ctx, ...)
QueryCtx == "ctx"

\* tor.go:71  m.measureTargets(origCtx, ...)
\* (variant: the deadline-bound child context is passed on)
MeasureTargetsCtxShared == "ctx"
MeasureTargetsCtx == "origCtx"

\* testlists.Query performs an HTTP request under its context: it cannot
\* succeed once that context is done.
QueryCanSucceed == ~CtxDone(QueryCtx)

\* The errors flexibleConnect can return: a probe whose context is done
\* fails with a cancellation error; otherwise it succeeds or fails.
ProbeErrs(done) == IF done THEN {ErrCtx} ELSE {Nil, ErrEOF}

\* tor.go:241  setFailure
\* (variant: the failure is never set)
setFailureNever(err) == Nil
setFailure(err) == IF err # Nil THEN err ELSE Nil

\* tor.go:233  errString
errString(err) == IF err # Nil THEN err ELSE "success"

\* tor.go:149  rc.targetresults[kt.key] = TargetResults{...}
\* (variant: the record of a failed probe is not stored)
StoreRecordDropFailed(m, key, rec) ==
    IF rec.Failure # Nil THEN m
    ELSE [k \in (DOMAIN m) \cup {key} |-> IF k = key THEN rec ELSE m[k]]
StoreRecord(m, key, rec) ==
    [k \in (DOMAIN m) \cup {key} |-> IF k = key THEN rec ELSE m[k]]

\* tor.go:161-163  atomic.AddInt64(&x, delta) returns the new value
\* (variant: the previous value is lost)
AtomicAddLost(x, delta) == delta
AtomicAdd(x, delta) == x + delta

\* tor.go:164-167  percentage, kept as the exact fraction <<num, den>>
Percentage(sofar, total) ==
    IF total > 0 THEN <<sofar, total>> ELSE <<0, 1>>

\* tor.go:106  waitgroup.Wait() returns when the counter is zero
\* (variant: it returns with one target outstanding)
WaitReturnsEarly(n) == n <= 1
WaitReturns(n) == n = 0

\* The inputs Measure is called with.
Inputs == {"in1", "in2"}

\* What an injected measurement function can do: assign TestKeys or not,
\* then return an error or nil.
ErrMeasure == "measurement failed"
Fns == [wrote : BOOLEAN, err : {Nil, ErrMeasure}]
NoFn == [wrote |-> FALSE, err |-> Nil]

\* model.Measurement: the zero value (TestKeys is a nil interface)
NoMeasurement == [Input |-> "", ReportID |-> "", TestKeys |-> Nil]

\* The end-of-record byte SaveMeasurement appends.
Newline == "\n"

\* What the file at filePath can hold before the first SaveMeasurement.
PriorContents == {<<>>, <<"prior", Newline>>}

\* ------------------------------------------------------ resources: data

\* The names of the catalog entries (the keys of All).
Names == 1..MaxResources

\* The content published for an entry, as a sequence of blocks.
Published(name) == <<ToString(name) \o "a", ToString(name) \o "b">>

\* A content with one byte flipped.
FlipByte(data) == [data EXCEPT ![1] = @ \o "~"]

\* sha256.Sum256 printed with %x: equal digests only for equal contents
SHA256(data) == <<"sha256", data>>

\* The bytes of a gzip stream holding data, and bytes that are no gzip
\* stream.
Gzip(data) == [gzip |-> TRUE, plain |-> data]
Garbage == [gzip |-> FALSE, plain |-> <<>>]

\* The catalog: for each name the path on the repository, the digest of
\* the gzip-compressed file and the digest of the uncompressed file.
All ==
    [name \in Names |->
        [URLPath |-> name,
         GzSHA256 |-> SHA256(Gzip(Published(name))),
         SHA256 |-> SHA256(Published(name))]]

\* A file of the working directory: missing, or present with its content.
NoFile == [exists |-> FALSE, data |-> <<>>]
FileOf(data) == [exists |-> TRUE, data |-> data]

\* The file is present and holds the content the catalog declares.
ValidFile(f, name) == f.exists /\ SHA256(f.data) = All[name].SHA256

ErrNoEnt == "no such file"
ErrFetch == "fetch failed"
ErrCanceled == "context canceled"
ErrGzip == "gzip: invalid header"
ErrRead == "mocked error"
ErrMismatch == "sha256 mismatch"
ErrWrite == "write failed"

\* What a call of FetchAndVerify can meet: the repository serves the
\* published file or a file with other content, the request fails, or the
\* context is cancelled.
NetOutcomes == {"ok", "tampered", "neterr", "cancelled"}

\* What a call of ioutil.WriteFile can meet: success, a failure to open the
\* file, or a failure after part of the data has been written.
WriteOutcomes == {"ok", "openfail", "partial"}

\* In the record of a call: the function or collaborator was not called.
NotCalled == "-"

\* The comparators passed as equal: the one of Ensure and the always-false
\* one; the functions passed as gzipNewReader and ioutilReadAll: the real
\* ones and the failing ones.
Comparators == {"real", "false"}
Decompressors == {"real", "fail"}
Readers == {"real", "fail"}

NoCall == [name |-> 0, eq |-> "real", net |-> NotCalled, gz |-> NotCalled,
           rd |-> NotCalled, wr |-> NotCalled]

\* ------------------------------------------------------------------- Init

InitCommon ==
    /\ origDone = FALSE
    /\ timerFired = FALSE
    /\ mpc = "idle"
    /\ mtctx = Nil
    /\ spawned = 0
    /\ unsent = {}
    /\ chClosed = FALSE
    /\ wg = 0
    /\ retErr = NotReturned
    /\ testKeys = NilTestKeys
    /\ dataUsage = <<>>
    /\ targetresults = <<>>
    /\ mu = 0
    /\ sentBytes = 0
    /\ receivedBytes = 0
    /\ completed = 0
    /\ progress = <<>>
    /\ wpc = [w \in Workers |-> "none"]
    /\ wkt = [w \in Workers |-> 0]
    /\ wtk = [w \in Workers |-> NoTk]
    /\ wsofar = [w \in Workers |-> 0]
    /\ probed = <<>>

\* experiment.go:55-66  New: no report is open
InitReport ==
    /\ Report = <<>>
    /\ openCalls = 0
    /\ closeCalls = 0
    /\ submitCalls = 0
    /\ lastOp = "New"
    /\ lastErr = Nil
    /\ nops = 0
    /\ prevReport = <<>>
    /\ lastRemote = "none"
    /\ measurement = NoMeasurement
    /\ lastFn = NoFn
    /\ file = file0
    /\ saved = <<>>
    /\ torn = FALSE

\* resources.Client: no call made yet, on a working directory that is empty
InitResEmpty ==
    /\ rpc = "idle"
    /\ pending = {}
    /\ resOp = "none"
    /\ resErr = Nil
    /\ rops = 0
    /\ fetched = [name \in Names |-> 0]
    /\ files0 = files
    /\ lastCall = NoCall

InitNoRes ==
    /\ files = [name \in Names |-> NoFile]
    /\ InitResEmpty

\* The byte counts are abstracted: every probe reports 0 bytes.
InitTor ==
    /\ targets \in {1..n : n \in 0..MaxTargets}
    /\ traffic = {0}
    /\ file0 = <<>>
    /\ InitNoRes
    /\ InitCommon
    /\ InitReport

\* Every probe reports any byte counts of ByteCounts; there are at most as
\* many targets as workers.
InitBytes ==
    /\ targets \in {1..n : n \in 0..parallelism}
    /\ traffic = ByteCounts
    /\ file0 = <<>>
    /\ InitNoRes
    /\ InitCommon
    /\ InitReport

\* The operations of one Experiment, with an injected measurement function;
\* the file at filePath is absent (empty) or holds earlier content.
InitExp ==
    /\ targets = {}
    /\ traffic = {0}
    /\ file0 \in PriorContents
    /\ InitNoRes
    /\ InitCommon
    /\ InitReport

\* ------------------------------------------------------------ environment

envvars == <<targets, origDone, timerFired, traffic>>
callervars == <<mpc, mtctx, spawned, unsent, chClosed, retErr, testKeys, dataUsage>>
rcvars == <<targetresults, mu, sentBytes, receivedBytes, completed, progress>>
workervars == <<wpc, wkt, wtk, wsofar>>
ghostvars == <<probed>>

\* The owner of origCtx cancels it, at any time before measure has returned.
CancelOrig ==
    /\ mpc # "returned"
    /\ ~origDone
    /\ origDone' = TRUE
    /\ UNCHANGED <<resvars, expvars, targets, timerFired, traffic, callervars, wg, rcvars, workervars, ghostvars>>

\* The 60 s timer fires; it runs from WithTimeout (line 65) to the deferred
\* cancel (line 66), i.e. while measure is active.
DeadlineExpires ==
    /\ mpc \notin {"idle", "returned"}
    /\ ~timerFired
    /\ timerFired' = TRUE
    /\ UNCHANGED <<resvars, expvars, targets, origDone, traffic, callervars, wg, rcvars, workervars, ghostvars>>

\* ---------------------------------------------------------------- measure

\* tor.go:59-68  measure is called: WithTimeout, then Query(ctx) is started
MeasureCall ==
    /\ mpc = "idle"
    /\ mpc' = "query"
    /\ UNCHANGED <<resvars, expvars, envvars, mtctx, spawned, unsent, chClosed, retErr, testKeys,
                   dataUsage, wg, rcvars, workervars, ghostvars>>

\* tor.go:68-73  Query returns an error: measure returns it
\* (variant: the error is not checked and measureTargets is called)
QueryFailsUnchecked ==
    /\ mpc = "query"
    /\ mpc' = "begin"
    /\ mtctx' = MeasureTargetsCtx
    /\ UNCHANGED <<resvars, expvars, envvars, spawned, unsent, chClosed, retErr, testKeys,
                   dataUsage, wg, rcvars, workervars, ghostvars>>
QueryFails ==
    /\ mpc = "query"
    /\ mpc' = "returned"
    /\ retErr' = ErrQuery
    /\ UNCHANGED <<resvars, expvars, envvars, mtctx, spawned, unsent, chClosed, testKeys,
                   dataUsage, wg, rcvars, workervars, ghostvars>>

\* tor.go:68-71  Query returns the targets: measureTargets is called
QuerySucceeds ==
    /\ mpc = "query"
    /\ QueryCanSucceed
    /\ mpc' = "begin"
    /\ mtctx' = MeasureTargetsCtx
    /\ UNCHANGED <<resvars, expvars, envvars, spawned, unsent, chClosed, retErr, testKeys,
                   dataUsage, wg, rcvars, workervars, ghostvars>>

\* tor.go:89-93  WaitGroup, results collector, Add(len(targets)), channel
MeasureTargetsBegin ==
    /\ mpc = "begin"
    /\ mpc' = "spawn"
    /\ wg' = Cardinality(targets)
    /\ unsent' = targets
    /\ UNCHANGED <<resvars, expvars, envvars, mtctx, spawned, chClosed, retErr, testKeys,
                   dataUsage, rcvars, workervars, ghostvars>>

\* tor.go:94-101  one iteration of the loop that starts the goroutines
Spawn ==
    /\ mpc = "spawn"
    /\ spawned < parallelism
    /\ spawned' = spawned + 1
    /\ wpc' = [wpc EXCEPT ![spawned + 1] = "recv"]
    /\ UNCHANGED <<resvars, expvars, envvars, mpc, mtctx, unsent, chClosed, retErr, testKeys,
                   dataUsage, wg, rcvars, wkt, wtk, wsofar, ghostvars>>

\* tor.go:94  the loop ends
\* (variant: no more goroutines are started than there are targets)
SpawnDoneOnePerTarget ==
    /\ mpc = "spawn"
    /\ spawned = (IF Cardinality(targets) < parallelism
                  THEN Cardinality(targets) ELSE parallelism)
    /\ mpc' = "send"
    /\ UNCHANGED <<resvars, expvars, envvars, mtctx, spawned, unsent, chClosed, retErr, testKeys,
                   dataUsage, wg, rcvars, workervars, ghostvars>>
SpawnDone ==
    /\ mpc = "spawn"
    /\ spawned = parallelism
    /\ mpc' = "send"
    /\ UNCHANGED <<resvars, expvars, envvars, mtctx, spawned, unsent, chClosed, retErr, testKeys,
                   dataUsage, wg, rcvars, workervars, ghostvars>>

\* tor.go:103 and 96-97  workch is unbuffered: the send completes only as a
\* hand-over to a worker waiting at its receive; the worker then calls
\* measureSingleTarget, which calls flexibleConnect (line 147).
Send(k, w) ==
    /\ mpc = "send"
    /\ k \in unsent
    /\ wpc[w] = "recv"
    /\ unsent' = unsent \ {k}
    /\ wpc' = [wpc EXCEPT ![w] = "inflight"]
    /\ wkt' = [wkt EXCEPT ![w] = k]
    /\ UNCHANGED <<resvars, expvars, envvars, mpc, mtctx, spawned, chClosed, retErr, testKeys,
                   dataUsage, wg, rcvars, wtk, wsofar, ghostvars>>

\* tor.go:102-105  the range loop is over: close(workch)
\* (variant: the channel is not closed)
CloseForgotten ==
    /\ mpc = "send"
    /\ unsent = {}
    /\ mpc' = "wait"
    /\ UNCHANGED <<resvars, expvars, envvars, mtctx, spawned, unsent, chClosed, retErr,
                   testKeys, dataUsage, wg, rcvars, workervars, ghostvars>>
Close ==
    /\ mpc = "send"
    /\ unsent = {}
    /\ chClosed' = TRUE
    /\ mpc' = "wait"
    /\ UNCHANGED <<resvars, expvars, envvars, mtctx, spawned, unsent, retErr, testKeys,
                   dataUsage, wg, rcvars, workervars, ghostvars>>

\* tor.go:106  waitgroup.Wait()
Wait ==
    /\ mpc = "wait"
    /\ WaitReturns(wg)
    /\ mpc' = "fill"
    /\ UNCHANGED <<resvars, expvars, envvars, mtctx, spawned, unsent, chClosed, retErr, testKeys,
                   dataUsage, wg, rcvars, workervars, ghostvars>>

\* tor.go:108-109  measurement.TestKeys = &TestKeys{Targets: rc.targetresults}
FillTestKeys ==
    /\ mpc = "fill"
    /\ testKeys' = [Set |-> TRUE, Targets |-> targetresults]
    /\ mpc' = "usage"
    /\ UNCHANGED <<resvars, expvars, envvars, mtctx, spawned, unsent, chClosed, retErr,
                   dataUsage, wg, rcvars, workervars, ghostvars>>

\* tor.go:111-112  float64(x)/1024.0, kept as the exact fraction
\* <<num, den>> (a division by a power of two is exact in float64)
KiB(x) == <<x, 1024>>

\* tor.go:110-114 and 73  OnDataUsage(received/1024, sent/1024); return nil
DataUsageReturn ==
    /\ mpc = "usage"
    /\ dataUsage' = Append(dataUsage, <<KiB(receivedBytes), KiB(sentBytes)>>)
    /\ retErr' = Nil
    /\ mpc' = "returned"
    /\ UNCHANGED <<resvars, expvars, envvars, mtctx, spawned, unsent, chClosed, testKeys,
                   wg, rcvars, workervars, ghostvars>>

CallerStep ==
    \/ MeasureTargetsBegin
    \/ Spawn
    \/ SpawnDone
    \/ \E k \in Keys, w \in Workers : Send(k, w)
    \/ Close
    \/ Wait
    \/ FillTestKeys
    \/ DataUsageReturn

\* ------------------------------------------------------ measureSingleTarget

\* tor.go:147  flexibleConnect returns tk, err
ProbeReturn(w, err, sent, recv) ==
    /\ wpc[w] = "inflight"
    /\ err \in ProbeErrs(CtxDone(mtctx))
    /\ sent \in traffic
    /\ recv \in traffic
    /\ wtk' = [wtk EXCEPT ![w] = [err |-> err, sent |-> sent, recv |-> recv]]
    /\ wpc' = [wpc EXCEPT ![w] = "lock"]
    /\ probed' = [k \in (DOMAIN probed) \cup {wkt[w]} |->
                     IF k = wkt[w]
                     THEN [err |-> err, sent |-> sent, recv |-> recv,
                           done |-> CtxDone(mtctx)]
                     ELSE probed[k]]
    /\ UNCHANGED <<resvars, expvars, envvars, callervars, wg, rcvars, wkt, wsofar>>

\* tor.go:148  rc.mu.Lock()
Lock(w) ==
    /\ wpc[w] = "lock"
    /\ mu = 0
    /\ mu' = w
    /\ wpc' = [wpc EXCEPT ![w] = "store"]
    /\ UNCHANGED <<resvars, expvars, envvars, callervars, wg, targetresults, sentBytes,
                   receivedBytes, completed, progress, wkt, wtk, wsofar, ghostvars>>

\* tor.go:149-160  the record is stored; rc.mu.Unlock()
StoreUnlock(w) ==
    /\ wpc[w] = "store"
    /\ targetresults' = StoreRecord(targetresults, wkt[w],
                            [Agent |-> "redirect", Failure |-> setFailure(wtk[w].err)])
    /\ mu' = 0
    /\ wpc' = [wpc EXCEPT ![w] = "addsent"]
    /\ wtk' = [wtk EXCEPT ![w].err = Nil]
    /\ UNCHANGED <<resvars, expvars, envvars, callervars, wg, sentBytes, receivedBytes, completed,
                   progress, wkt, wsofar, ghostvars>>

\* tor.go:161  atomic.AddInt64(&rc.sentBytes, tk.SentBytes)
\* (a field of tk is reset to its zero value after its last read)
AddSent(w) ==
    /\ wpc[w] = "addsent"
    /\ sentBytes' = AtomicAdd(sentBytes, wtk[w].sent)
    /\ wpc' = [wpc EXCEPT ![w] = "addrecv"]
    /\ wtk' = [wtk EXCEPT ![w].sent = 0]
    /\ UNCHANGED <<resvars, expvars, envvars, callervars, wg, targetresults, mu, receivedBytes,
                   completed, progress, wkt, wsofar, ghostvars>>

\* tor.go:162  atomic.AddInt64(&rc.receivedBytes, tk.ReceivedBytes)
AddRecv(w) ==
    /\ wpc[w] = "addrecv"
    /\ receivedBytes' = AtomicAdd(receivedBytes, wtk[w].recv)
    /\ wpc' = [wpc EXCEPT ![w] = "addcompleted"]
    /\ wtk' = [wtk EXCEPT ![w].recv = 0]
    /\ UNCHANGED <<resvars, expvars, envvars, callervars, wg, targetresults, mu, sentBytes,
                   completed, progress, wkt, wsofar, ghostvars>>

\* tor.go:163  sofar := atomic.AddInt64(&rc.completed, 1)
AddCompleted(w) ==
    /\ wpc[w] = "addcompleted"
    /\ completed' = AtomicAdd(completed, 1)
    /\ wsofar' = [wsofar EXCEPT ![w] = AtomicAdd(completed, 1)]
    /\ wpc' = [wpc EXCEPT ![w] = "progress"]
    /\ UNCHANGED <<resvars, expvars, envvars, callervars, wg, targetresults, mu, sentBytes,
                   receivedBytes, progress, wkt, wtk, ghostvars>>

\* tor.go:164-171  rc.callbacks.OnProgress(percentage, message); total is
\* len(targets), the goroutine's second argument (line 100). The event is
\* kept as its fraction; the message (address, protocol, errString(err)) is
\* not kept.
OnProgress(w) ==
    /\ wpc[w] = "progress"
    /\ progress' = Append(progress, Percentage(wsofar[w], Cardinality(targets)))
    /\ wpc' = [wpc EXCEPT ![w] = "wgdone"]
    /\ UNCHANGED <<resvars, expvars, envvars, callervars, wg, targetresults, mu, sentBytes,
                   receivedBytes, completed, wkt, wtk, wsofar, ghostvars>>

\* tor.go:98  waitgroup.Done(), then back to the receive of the range loop
WgDone(w) ==
    /\ wpc[w] = "wgdone"
    /\ wg' = wg - 1
    /\ wpc' = [wpc EXCEPT ![w] = "recv"]
    /\ wkt' = [wkt EXCEPT ![w] = 0]
    /\ wsofar' = [wsofar EXCEPT ![w] = 0]
    /\ UNCHANGED <<resvars, expvars, envvars, callervars, rcvars, wtk, ghostvars>>

\* tor.go:96  the range loop ends: the channel is closed (and, being
\* unbuffered, holds nothing)
WorkerExit(w) ==
    /\ wpc[w] = "recv"
    /\ chClosed
    /\ wpc' = [wpc EXCEPT ![w] = "exit"]
    /\ UNCHANGED <<resvars, expvars, envvars, callervars, wg, rcvars, wkt, wtk, wsofar, ghostvars>>

WorkerStep(w) ==
    \/ \E err \in {Nil, ErrEOF, ErrCtx}, sent \in ByteCounts, recv \in ByteCounts :
          ProbeReturn(w, err, sent, recv)
    \/ Lock(w)
    \/ StoreUnlock(w)
    \/ AddSent(w)
    \/ AddRecv(w)
    \/ AddCompleted(w)
    \/ OnProgress(w)
    \/ WgDone(w)
    \/ WorkerExit(w)

\* ------------------------------------------------------------------ SpecTor

TorStep ==
    \/ CancelOrig
    \/ DeadlineExpires
    \/ MeasureCall
    \/ QueryFails
    \/ QuerySucceeds
    \/ CallerStep
    \/ \E w \in Workers : WorkerStep(w)

NextTor == TorStep

SpecTor == InitTor /\ [][NextTor]_vars

SpecBytes == InitBytes /\ [][NextTor]_vars

\* Every goroutine that can take a step eventually takes one; the
\* environment (cancellation, the timer, the outcome of Query) is not forced.
FairSpecTor ==
    /\ SpecTor
    /\ WF_vars(CallerStep)
    /\ \A w \in Workers : WF_vars(WorkerStep(w))

TypeOKTor ==
    /\ targets \subseteq Keys
    /\ unsent \subseteq targets
    /\ wg \in 0..MaxTargets
    /\ mu \in {0} \cup Workers
    /\ completed \in 0..MaxTargets
    /\ Len(progress) <= MaxTargets
    /\ DOMAIN targetresults \subseteq targets

\* --------------------------------------------------------------- Experiment

ErrCollector == "collector failed"
ErrNotOpen == "Report is not open"

\* The n-th report ID the collector assigns.
ReportIDOf(n) == ToString(n)

\* Session.OpenReport(ctx, testName, testVersion): the n-th remote open
\* returns a report with a fresh ID, or no report and an error.
SessionOpenReport(ok, n) ==
    IF ok THEN [report |-> <<ReportIDOf(n)>>, err |-> Nil]
    ELSE [report |-> <<>>, err |-> ErrCollector]

\* Report.Close(ctx) and Report.SubmitMeasurement(ctx, m): the error returned
CollectorCall(ok) == IF ok THEN Nil ELSE ErrCollector

\* Whether a remote call succeeded
RemoteOutcome(ok) == IF ok THEN "ok" ELSE "failed"

\* experiment.go:71  if e.Report != nil { return }
\* (variant: the test is missing)
AlreadyOpenNever(r) == FALSE
AlreadyOpen(r) == r # <<>>

\* experiment.go:121  if e.Report == nil
\* (variant: the test is missing)
ReportIsNilNever(r) == FALSE
ReportIsNil(r) == r = <<>>

\* experiment.go:150  e.Report = nil
\* (variant: the handle is kept)
ReportAfterCloseKept(r) == r
ReportAfterClose(r) == <<>>

\* experiment.go:78-84  ReportID
ReportID == IF Report = <<>> THEN "" ELSE Report[1]

\* experiment.go:68-76  OpenReport
OpenReport(ok) ==
    /\ nops < MaxOps
    /\ nops' = nops + 1
    /\ lastOp' = "OpenReport"
    /\ prevReport' = Report
    /\ IF AlreadyOpen(Report)
       THEN /\ lastErr' = Nil
            /\ lastRemote' = "none"
            /\ UNCHANGED <<Report, openCalls>>
       ELSE /\ openCalls' = openCalls + 1
            /\ Report' = SessionOpenReport(ok, openCalls + 1).report
            /\ lastErr' = SessionOpenReport(ok, openCalls + 1).err
            /\ lastRemote' = RemoteOutcome(ok)
    /\ UNCHANGED <<closeCalls, submitCalls, measurevars, filevars, torvars, resvars>>

\* experiment.go:115-125  SubmitMeasurement
SubmitMeasurement(ok) ==
    /\ nops < MaxOps
    /\ nops' = nops + 1
    /\ lastOp' = "SubmitMeasurement"
    /\ prevReport' = Report
    /\ IF ReportIsNil(Report)
       THEN /\ lastErr' = ErrNotOpen
            /\ lastRemote' = "none"
            /\ UNCHANGED submitCalls
       ELSE /\ submitCalls' = submitCalls + 1
            /\ lastErr' = CollectorCall(ok)
            /\ lastRemote' = RemoteOutcome(ok)
    /\ UNCHANGED <<Report, openCalls, closeCalls, measurevars, filevars, torvars, resvars>>

\* experiment.go:146-153  CloseReport
\* (variant: the handle is cleared only when the remote close succeeds)
CloseReportKeepsOnError(ok) ==
    /\ nops < MaxOps
    /\ nops' = nops + 1
    /\ lastOp' = "CloseReport"
    /\ prevReport' = Report
    /\ IF Report # <<>>
       THEN /\ closeCalls' = closeCalls + 1
            /\ lastErr' = CollectorCall(ok)
            /\ lastRemote' = RemoteOutcome(ok)
            /\ Report' = IF ok THEN <<>> ELSE Report
       ELSE /\ lastErr' = Nil
            /\ lastRemote' = "none"
            /\ UNCHANGED <<Report, closeCalls>>
    /\ UNCHANGED <<openCalls, submitCalls, measurevars, filevars, torvars, resvars>>
CloseReport(ok) ==
    /\ nops < MaxOps
    /\ nops' = nops + 1
    /\ lastOp' = "CloseReport"
    /\ prevReport' = Report
    /\ IF Report # <<>>
       THEN /\ closeCalls' = closeCalls + 1
            /\ lastErr' = CollectorCall(ok)
            /\ lastRemote' = RemoteOutcome(ok)
            /\ Report' = ReportAfterClose(Report)
       ELSE /\ lastErr' = Nil
            /\ lastRemote' = "none"
            /\ UNCHANGED <<Report, closeCalls>>
    /\ UNCHANGED <<openCalls, submitCalls, measurevars, filevars, torvars, resvars>>

\* experiment.go:86-101  newMeasurement: the envelope carries the input and
\* the ID of the report open at the time ("" when none)
newMeasurement(input) ==
    [Input |-> input, ReportID |-> ReportID, TestKeys |-> Nil]

\* experiment.go:110  e.DoMeasure(ctx, e.Session, &measurement, e.Callbacks):
\* the envelope as the injected function leaves it
DoMeasure(fn, m) ==
    IF fn.wrote THEN [m EXCEPT !.TestKeys = "testkeys"] ELSE m

\* experiment.go:112  return: the named results measurement, err
\* (variant: an envelope returned with an error has its TestKeys cleared)
MeasureResultCleared(m, err) ==
    IF err # Nil THEN [m EXCEPT !.TestKeys = Nil] ELSE m
MeasureResult(m, err) == m

\* experiment.go:103-113  Measure
Measure(input, fn) ==
    /\ nops < MaxOps
    /\ nops' = nops + 1
    /\ lastOp' = "Measure"
    /\ prevReport' = Report
    /\ lastRemote' = "none"
    /\ lastFn' = fn
    /\ measurement' = MeasureResult(DoMeasure(fn, newMeasurement(input)), fn.err)
    /\ lastErr' = fn.err
    /\ UNCHANGED <<reportvars, filevars, torvars, resvars>>

\* experiment.go:131  json.Marshal(measurement)
Marshal(m) == <<"json", m.Input, m.ReportID, m.TestKeys>>

\* experiment.go:135  data = append(data, byte('\n'))
RecordOf(m) == <<Marshal(m), Newline>>

\* experiment.go:136-138  os.OpenFile(filePath, O_APPEND|O_CREATE|O_WRONLY)
\* and Write position every write at the end of the current content
\* (variant: the file is opened with O_TRUNC)
OpenTruncWrite(content, data) == data
OpenAppendWrite(content, data) == content \o data

ErrMarshal == "marshal failed"
ErrFile == "file error"

\* What the environment can do to one SaveMeasurement: nothing, or make
\* json.Marshal, os.OpenFile, filep.Write (after n tokens) or filep.Close
\* fail.
SaveOutcomes ==
    {[fail |-> f, n |-> 0] : f \in {"no", "marshal", "open"}}
        \cup {[fail |-> "write", n |-> n] : n \in 0..1}
        \cup {[fail |-> "close", n |-> 2]}

\* experiment.go:127-144  SaveMeasurement(measurement, filePath), called
\* with the envelope the last Measure returned
SaveMeasurement(o) ==
    /\ nops < MaxOps
    /\ nops' = nops + 1
    /\ lastOp' = "SaveMeasurement"
    /\ prevReport' = Report
    /\ lastRemote' = "none"
    /\ LET data == RecordOf(measurement) IN
       CASE o.fail = "marshal" ->
                /\ lastErr' = ErrMarshal
                /\ UNCHANGED <<file, saved, torn>>
         [] o.fail = "open" ->
                /\ lastErr' = ErrFile
                /\ UNCHANGED <<file, saved, torn>>
         [] o.fail = "write" ->
                /\ lastErr' = ErrFile
                /\ file' = OpenAppendWrite(file, SubSeq(data, 1, o.n))
                /\ torn' = (torn \/ o.n > 0)
                /\ UNCHANGED saved
         [] o.fail = "close" ->
                /\ lastErr' = ErrFile
                /\ file' = OpenAppendWrite(file, data)
                /\ torn' = TRUE
                /\ UNCHANGED saved
         [] OTHER ->
                /\ lastErr' = Nil
                /\ file' = OpenAppendWrite(file, data)
                /\ saved' = Append(saved, data)
                /\ UNCHANGED torn
    /\ UNCHANGED <<reportvars, measurevars, file0, torvars, resvars>>

ExpStep ==
    \/ \E ok \in BOOLEAN : OpenReport(ok)
    \/ \E ok \in BOOLEAN : SubmitMeasurement(ok)
    \/ \E ok \in BOOLEAN : CloseReport(ok)
    \/ \E input \in Inputs, fn \in Fns : Measure(input, fn)
    \/ \E o \in SaveOutcomes : SaveMeasurement(o)

NextExp == ExpStep

SpecExp == InitExp /\ [][NextExp]_vars

TypeOKExp ==
    /\ Report \in {<<>>} \cup {<<ReportIDOf(n)>> : n \in 1..MaxOps}
    /\ openCalls \in 0..MaxOps
    /\ closeCalls \in 0..MaxOps
    /\ submitCalls \in 0..MaxOps
    /\ nops \in 0..MaxOps

\* ---------------------------------------------------------------- resources

\* resources_test.go:218  ioutil.ReadFile(fullpath)
ReadFile(fs, name) ==
    IF fs[name].exists THEN [data |-> fs[name].data, err |-> Nil]
    ELSE [data |-> <<>>, err |-> ErrNoEnt]

\* resources_test.go:199-201 and :78-80  the function passed as equal
Equal(eq, real, expected) ==
    IF eq = "real" THEN real = expected ELSE FALSE

\* resources_test.go:219-223  the local file is current: it was read and
\* equal accepts its digest
\* (variants: the local file is never taken as current; a readable file is
\* taken as current without comparing its digest)
LocalIsCurrentNever(local, eq, expected) == FALSE
LocalIsCurrentIfReadable(local, eq, expected) == local.err = Nil
LocalIsCurrent(local, eq, expected) ==
    local.err = Nil /\ Equal(eq, SHA256(local.data), expected)

\* What the repository answers to a request for the entry.
Served(net, name) ==
    CASE net = "ok" -> Gzip(Published(name))
      [] net = "tampered" -> Gzip(FlipByte(Published(name)))
      [] OTHER -> Garbage

\* fetch.Client.FetchAndVerify(ctx, URL, GzSHA256): the body fetched, or an
\* error when the context is cancelled, the request fails or the digest of
\* the body is not GzSHA256.
FetchAndVerify(net, name, gzsha256) ==
    CASE net = "cancelled" -> [data |-> Garbage, err |-> ErrCanceled]
      [] net = "neterr" -> [data |-> Garbage, err |-> ErrFetch]
      [] SHA256(Served(net, name)) # gzsha256 ->
            [data |-> Garbage, err |-> ErrFetch]
      [] OTHER -> [data |-> Served(net, name), err |-> Nil]

\* resources_test.go:239  the function passed as gzipNewReader
GzipNewReader(gz, body) ==
    IF gz = "real" /\ body.gzip THEN [data |-> body.plain, err |-> Nil]
    ELSE [data |-> <<>>, err |-> ErrGzip]

\* resources_test.go:244  the function passed as ioutilReadAll
IoutilReadAll(rd, stream) ==
    IF rd = "real" THEN [data |-> stream, err |-> Nil]
    ELSE [data |-> <<>>, err |-> ErrRead]

\* resources_test.go:245-247  if err != nil { return err }
\* (variant: the error of the read is dropped)
ReadAllErrDropped(res) == Nil
ReadAllErr(res) == res.err

\* resources_test.go:249  equal(sha256sum, resource.SHA256) == false
\* (variant: the digests are compared with ==, not with equal)
MismatchBuiltin(eq, data, expected) == SHA256(data) # expected
Mismatch(eq, data, expected) == Equal(eq, SHA256(data), expected) = FALSE

\* resources_test.go:253  ioutil.WriteFile(fullpath, data, 0600): creates or
\* truncates the file and writes data; a failure while writing leaves the
\* first part of data in the file
WriteFile(fs, name, data, wr) ==
    CASE wr = "ok" -> [files |-> [fs EXCEPT ![name] = FileOf(data)],
                       err |-> Nil]
      [] wr = "openfail" -> [files |-> fs, err |-> ErrWrite]
      [] OTHER -> [files |-> [fs EXCEPT ![name] = FileOf(SubSeq(data, 1, 1))],
                   err |-> ErrWrite]

\* resources_test.go:253  return ioutil.WriteFile(...)
\* (variant: the error of the write is dropped)
WriteErrDropped(res) == Nil
WriteErr(res) == res.err

\* The steps of EnsureForSingleResource, in the order of the code.
StepReadFile == 1
StepFetch == 2
StepGzip == 3
StepReadAll == 4
StepVerify == 5
StepWrite == 6

\* resources_test.go:211-254  EnsureForSingleResource: the files and the
\* error it leaves, the number of FetchAndVerify calls it made and the last
\* step it reached
EnsureForSingleResource(fs, name, eq, gz, rd, net, wr) ==
    LET resource == All[name]
        local == ReadFile(fs, name)
        body == FetchAndVerify(net, name, resource.GzSHA256)
        gzreader == GzipNewReader(gz, body.data)
        plain == IoutilReadAll(rd, gzreader.data)
        written == WriteFile(fs, name, plain.data, wr)
    IN  IF LocalIsCurrent(local, eq, resource.SHA256)
        THEN [files |-> fs, err |-> Nil, fetch |-> 0, step |-> StepReadFile]
        ELSE IF body.err # Nil
        THEN [files |-> fs, err |-> body.err, fetch |-> 1, step |-> StepFetch]
        ELSE IF gzreader.err # Nil
        THEN [files |-> fs, err |-> gzreader.err, fetch |-> 1,
              step |-> StepGzip]
        ELSE IF ReadAllErr(plain) # Nil
        THEN [files |-> fs, err |-> ReadAllErr(plain), fetch |-> 1,
              step |-> StepReadAll]
        ELSE IF Mismatch(eq, plain.data, resource.SHA256)
        THEN [files |-> fs, err |-> ErrMismatch, fetch |-> 1,
              step |-> StepVerify]
        ELSE [files |-> written.files, err |-> WriteErr(written), fetch |-> 1,
              step |-> StepWrite]

\* The record of a call: the entry, the comparator, and for each function
\* or collaborator the call reached, which one it was or what it met.
CallRecord(name, eq, gz, rd, net, wr, step) ==
    [name |-> name,
     eq |-> eq,
     net |-> IF step >= StepFetch THEN net ELSE NotCalled,
     gz |-> IF step >= StepGzip THEN gz ELSE NotCalled,
     rd |-> IF step >= StepReadAll THEN rd ELSE NotCalled,
     wr |-> IF step >= StepWrite THEN wr ELSE NotCalled]

\* The working directory holds, for each entry, no file, the published
\* file or a file with one byte flipped.
InitRes ==
    /\ files \in [Names -> {NoFile} \cup
                    {FileOf(d) : d \in {Published(n) : n \in Names} \cup
                                        {FlipByte(Published(n)) : n \in Names}}]
    /\ \A n \in Names :
          files[n].exists => files[n].data \in {Published(n), FlipByte(Published(n))}
    /\ InitResEmpty
    /\ targets = {}
    /\ traffic = {0}
    /\ file0 = <<>>
    /\ InitCommon
    /\ InitReport

\* Another program deletes a file of the working directory or flips a byte
\* of it, while no call is running.
Corrupt(name, delete) ==
    /\ rpc = "idle"
    /\ rops < MaxResOps
    /\ files[name].exists
    /\ rops' = rops + 1
    /\ files' = [files EXCEPT ![name] =
                    IF delete \/ @.data = <<>> THEN NoFile
                    ELSE FileOf(FlipByte(@.data))]
    /\ resOp' = "Corrupt"
    /\ UNCHANGED <<rpc, pending, resErr, fetched, files0, lastCall,
                   torvars, expvars>>

\* resources_test.go:195-196  Ensure is called
EnsureBegin ==
    /\ rpc = "idle"
    /\ rops < MaxResOps
    /\ rops' = rops + 1
    /\ rpc' = "ensure"
    /\ pending' = Names
    /\ resOp' = "Ensure"
    /\ resErr' = NotReturned
    /\ fetched' = [name \in Names |-> 0]
    /\ files0' = files
    /\ lastCall' = NoCall
    /\ UNCHANGED <<files, torvars, expvars>>

\* resources_test.go:196-205  one iteration of for name, resource := range
\* All (in the order the map yields): EnsureForSingleResource with the real
\* comparator, gzip.NewReader and ioutil.ReadAll; its error ends Ensure
EnsureEntry(name, net, wr) ==
    /\ rpc = "ensure"
    /\ name \in pending
    /\ LET r == EnsureForSingleResource(files, name, "real", "real", "real",
                                        net, wr)
       IN  /\ files' = r.files
           /\ fetched' = [fetched EXCEPT ![name] = @ + r.fetch]
           /\ pending' = pending \ {name}
           /\ IF r.err # Nil
              THEN rpc' = "idle" /\ resErr' = r.err
              ELSE UNCHANGED <<rpc, resErr>>
           /\ lastCall' = CallRecord(name, "real", "real", "real", net, wr,
                                     r.step)
    /\ UNCHANGED <<resOp, rops, files0, torvars, expvars>>

\* resources_test.go:206  return nil
EnsureReturn ==
    /\ rpc = "ensure"
    /\ pending = {}
    /\ rpc' = "idle"
    /\ resErr' = Nil
    /\ UNCHANGED <<files, pending, resOp, rops, fetched, files0, lastCall,
                   torvars, expvars>>

\* resources_test.go:211-254  EnsureForSingleResource is called directly,
\* with the catalog's entry for name and any of the injected functions
EnsureSingle(name, eq, gz, rd, net, wr) ==
    /\ rpc = "idle"
    /\ rops < MaxResOps
    /\ rops' = rops + 1
    /\ resOp' = "EnsureForSingleResource"
    /\ files0' = files
    /\ LET r == EnsureForSingleResource(files, name, eq, gz, rd, net, wr)
       IN  /\ files' = r.files
           /\ fetched' = [n \in Names |-> IF n = name THEN r.fetch ELSE 0]
           /\ resErr' = r.err
           /\ lastCall' = CallRecord(name, eq, gz, rd, net, wr, r.step)
    /\ UNCHANGED <<rpc, pending, torvars, expvars>>

\* The outcomes of FetchAndVerify and of WriteFile, and the injected
\* functions, to tell apart for a call: all of them when the call reaches
\* the collaborator, one otherwise (what a collaborator would do that is
\* not called changes nothing).
NetFor(name, eq) ==
    IF EnsureForSingleResource(files, name, eq, "real", "real", "ok",
                               "ok").step >= StepFetch
    THEN NetOutcomes ELSE {"ok"}
GzFor(name, eq, net) ==
    IF EnsureForSingleResource(files, name, eq, "real", "real", net,
                               "ok").step >= StepGzip
    THEN Decompressors ELSE {"real"}
RdFor(name, eq, net, gz) ==
    IF EnsureForSingleResource(files, name, eq, gz, "real", net,
                               "ok").step >= StepReadAll
    THEN Readers ELSE {"real"}
WriteFor(name, eq, gz, rd, net) ==
    IF EnsureForSingleResource(files, name, eq, gz, rd, net,
                               "ok").step >= StepWrite
    THEN WriteOutcomes ELSE {"ok"}

ResStep ==
    \/ \E name \in Names, delete \in BOOLEAN : Corrupt(name, delete)
    \/ EnsureBegin
    \/ \E name \in Names : \E net \in NetFor(name, "real") :
          \E wr \in WriteFor(name, "real", "real", "real", net) :
             EnsureEntry(name, net, wr)
    \/ EnsureReturn
    \/ \E name \in Names, eq \in Comparators :
          \E net \in NetFor(name, eq) : \E gz \in GzFor(name, eq, net) :
             \E rd \in RdFor(name, eq, net, gz) :
                \E wr \in WriteFor(name, eq, gz, rd, net) :
                   EnsureSingle(name, eq, gz, rd, net, wr)

NextRes == ResStep

SpecRes == InitRes /\ [][NextRes]_vars

TypeOKRes ==
    /\ rpc \in {"idle", "ensure"}
    /\ pending \subseteq Names
    /\ rops \in 0..MaxResOps
    /\ \A n \in Names : fetched[n] \in 0..1
    /\ \A n \in Names : files[n].exists \/ files[n].data = <<>>

\* ================================================================== claims

N == Cardinality(targets)

RECURSIVE SumSent(_)
SumSent(S) ==
    IF S = {} THEN 0
    ELSE LET k == CHOOSE x \in S : TRUE IN probed[k].sent + SumSent(S \ {k})

RECURSIVE SumRecv(_)
SumRecv(S) ==
    IF S = {} THEN 0
    ELSE LET k == CHOOSE x \in S : TRUE IN probed[k].recv + SumRecv(S \ {k})

\* measureTargets is past waitgroup.Wait()
PastBarrier == mpc \in {"fill", "usage"} \/ (mpc = "returned" /\ mtctx # Nil)

\* Keys a worker holds, and keys whose measureSingleTarget has returned
HeldKeys == {wkt[w] : w \in Workers} \ {0}
FinishedKeys == (DOMAIN targetresults) \ HeldKeys

\* ------------------------------------------------------------------- C1
\* C1: when measureTargets returns, the key set of the map it placed in
\* TestKeys.Targets equals the key set of the input targets, whatever the
\* number of failed probes and the interleaving of the workers.
C1_KeySetPreserved ==
    /\ testKeys.Set => DOMAIN testKeys.Targets = targets
    /\ (mpc = "returned" /\ mtctx # Nil) => testKeys.Set

C1_Witness ==
    /\ mpc = "returned"
    /\ testKeys.Set
    /\ N = MaxTargets
    /\ \E k \in targets : testKeys.Targets[k].Failure # Nil
    /\ \E k \in targets : testKeys.Targets[k].Failure = Nil

\* ------------------------------------------------------------------- C2
\* C2: the sentBytes and receivedBytes totals read after the barrier equal
\* the sums of SentBytes and ReceivedBytes over the probe results of all
\* input targets, and the one OnDataUsage event reports these sums, each
\* divided by 1024.
C2_ByteTotalsExact ==
    /\ PastBarrier =>
          /\ DOMAIN probed = targets
          /\ sentBytes = SumSent(targets)
          /\ receivedBytes = SumRecv(targets)
    /\ dataUsage # <<>> =>
          dataUsage = << <<KiB(SumRecv(targets)), KiB(SumSent(targets))>> >>
    /\ (mpc = "returned" /\ mtctx # Nil) => dataUsage # <<>>

C2_Witness ==
    /\ mpc = "returned"
    /\ N = parallelism
    /\ dataUsage # <<>>
    /\ \A k \in targets : probed[k].sent = MaxBytes
    /\ \E k \in targets : probed[k].recv = MaxBytes
    /\ \E k \in targets : probed[k].recv = 0

\* ------------------------------------------------------------------- C3
\* C3: measureTargets is a full barrier: once started it returns (every probe
\* returning), and when it reads the result map and the counters every input
\* target has finished measureSingleTarget and no worker is processing one.
AllProcessed ==
    /\ DOMAIN probed = targets
    /\ DOMAIN targetresults = targets
    /\ completed = N
    /\ Len(progress) = N
    /\ wg = 0
    /\ \A w \in Workers : wpc[w] \in {"recv", "exit"} /\ wkt[w] = 0

C3_FullBarrier ==
    /\ [](PastBarrier => AllProcessed)
    /\ (mpc = "begin") ~> (mpc = "returned")

C3_Witness ==
    /\ mpc = "fill"
    /\ N = MaxTargets
    /\ AllProcessed

\* ------------------------------------------------------------------- C4
\* C4: the k-th progress event emitted carries the fraction k/N, for every k
\* in 1..N; the fractions are emitted in increasing order and the last one
\* is 1.0.
C4_ProgressInOrder ==
    \A i \in 1..Len(progress) : progress[i] = Percentage(i, N)

\* ------------------------------------------------------------------- C5
\* C5 (as claimed): the submitting loop never waits for a worker: whenever
\* the caller is at the send with a pair left, the send can complete.
C5_SubmitNeverBlocks ==
    (mpc = "send" /\ unsent # {}) => \E w \in Workers : wpc[w] = "recv"

\* C5 (amended): a pair leaves the submitting loop only by being handed to a
\* worker waiting at its receive: nothing is queued, so every pair handed over
\* is held by a worker or finished, at most 2 are held, and with both workers
\* busy the caller cannot take a step (it blocks in the loop).
C5_SendIsHandOver ==
    mpc = "send" =>
       /\ targets \ unsent = HeldKeys \cup FinishedKeys
       /\ Cardinality(HeldKeys) <= 2
       /\ Cardinality(targets \ unsent) - Cardinality(FinishedKeys) <= 2
       /\ (unsent # {} /\ \A w \in Workers : wkt[w] # 0) => ~ENABLED CallerStep

C5_Witness ==
    /\ mpc = "send"
    /\ unsent # {}
    /\ \A w \in Workers : wpc[w] = "inflight"

\* ------------------------------------------------------------------- C6
\* C6 (as claimed): the 60 s deadline governs the fan-out: once it has
\* expired, every in-flight probe runs under a context that is done.
C6_DeadlineGovernsProbes ==
    \A w \in Workers : (wpc[w] = "inflight" /\ timerFired) => CtxDone(mtctx)

\* C6 (amended): the 60 s deadline governs the target-list retrieval only;
\* the probes all run under the caller's context, which is done exactly when
\* the caller cancelled it, whether or not the deadline has expired.
C6_DeadlineOnQueryOnly ==
    /\ mpc = "query" => (CtxDone(QueryCtx) <=> (origDone \/ timerFired))
    /\ \A w \in Workers : wpc[w] = "inflight" => (CtxDone(mtctx) <=> origDone)
    /\ \A k \in DOMAIN probed : probed[k].done => origDone

C6_Witness ==
    /\ timerFired
    /\ ~origDone
    /\ \E w \in Workers : wpc[w] = "inflight"
    /\ \E k \in DOMAIN probed : probed[k].err = Nil

\* ------------------------------------------------------------------- C7
\* C7: cancelling the context never aborts the batch: every input target is
\* still probed and gets a record, a probe run under the cancelled context
\* yields a record whose failure is set, all N keys are present and
\* measureTargets returns no error; and the barrier still returns.
C7_CancelKeepsBatch ==
    /\ []((mpc = "returned" /\ mtctx # Nil) =>
            /\ retErr = Nil
            /\ testKeys.Set
            /\ DOMAIN probed = targets
            /\ DOMAIN testKeys.Targets = targets
            /\ \A k \in targets :
                  probed[k].done => testKeys.Targets[k].Failure # Nil)
    /\ (origDone /\ mpc \in {"begin", "spawn", "send", "wait"}) ~> (mpc = "returned")

C7_Witness ==
    /\ mpc = "returned"
    /\ retErr = Nil
    /\ origDone
    /\ N = MaxTargets
    /\ \E k \in targets : probed[k].done /\ testKeys.Targets[k].Failure = ErrCtx
    /\ \E k \in targets : ~probed[k].done

\* ------------------------------------------------------------------- C8
\* C8: OpenReport called while a report is open makes no remote open call,
\* returns no error and leaves the handle and ReportID unchanged; every
\* closed-to-open transition is made by exactly one remote open call.
C8_OpenReportIdempotent ==
    /\ [][(nops' = nops + 1 /\ lastOp' = "OpenReport" /\ Report # <<>>) =>
            /\ openCalls' = openCalls
            /\ lastErr' = Nil
            /\ Report' = Report
            /\ ReportID' = ReportID]_vars
    /\ [][(Report = <<>> /\ Report' # <<>>) =>
            (lastOp' = "OpenReport" /\ openCalls' = openCalls + 1)]_vars

C8_Witness ==
    /\ lastOp = "OpenReport"
    /\ prevReport # <<>>
    /\ Report = prevReport
    /\ lastErr = Nil
    /\ openCalls = 1
    /\ nops >= 3

\* ------------------------------------------------------------------- C9
\* C9: CloseReport called when no report is open makes no remote call,
\* returns no error and leaves no report open; a remote close call is made
\* exactly when an open report is closed, once per report.
C9_CloseReportIdempotent ==
    /\ [][(nops' = nops + 1 /\ lastOp' = "CloseReport" /\ Report = <<>>) =>
            /\ closeCalls' = closeCalls
            /\ openCalls' = openCalls
            /\ submitCalls' = submitCalls
            /\ lastErr' = Nil
            /\ Report' = <<>>]_vars
    /\ [][(closeCalls' # closeCalls) <=> (Report # <<>> /\ Report' = <<>>)]_vars
    /\ [][closeCalls' \in {closeCalls, closeCalls + 1}]_vars

C9_Witness ==
    /\ lastOp = "CloseReport"
    /\ prevReport = <<>>
    /\ Report = <<>>
    /\ lastErr = Nil
    /\ closeCalls = 1

\* ------------------------------------------------------------------ C10
\* C10: whenever no report is open, SubmitMeasurement returns the "report
\* not open" error, makes no call to the collector and leaves the report
\* handle unchanged.
C10_SubmitNeedsOpenReport ==
    [][(nops' = nops + 1 /\ lastOp' = "SubmitMeasurement" /\ Report = <<>>) =>
            /\ lastErr' = ErrNotOpen
            /\ submitCalls' = submitCalls
            /\ openCalls' = openCalls
            /\ closeCalls' = closeCalls
            /\ Report' = <<>>]_vars

C10_Witness ==
    /\ lastOp = "SubmitMeasurement"
    /\ lastErr = ErrNotOpen
    /\ prevReport = <<>>
    /\ Report = <<>>
    /\ closeCalls = 1
    /\ submitCalls = 0

\* ------------------------------------------------------------------ C11
\* C11: when the collector fails during OpenReport or during CloseReport
\* the error is returned to the caller and no report is open afterwards
\* (ReportID is empty): a failed OpenReport stores no handle and a
\* CloseReport whose remote close fails still clears it.  From the closed
\* state an OpenReport issues a new remote open and a CloseReport is a
\* no-op.
C11_CollectorFailureLeavesClosed ==
    [][/\ (/\ nops' = nops + 1
           /\ lastOp' \in {"OpenReport", "CloseReport"}
           /\ lastRemote' = "failed") =>
                /\ lastErr' = ErrCollector
                /\ Report' = <<>>
                /\ ReportID' = ""
       /\ (nops' = nops + 1 /\ lastOp' = "OpenReport" /\ Report = <<>>) =>
                /\ openCalls' = openCalls + 1
                /\ closeCalls' = closeCalls
       /\ (nops' = nops + 1 /\ lastOp' = "CloseReport" /\ Report = <<>>) =>
                /\ lastErr' = Nil
                /\ Report' = <<>>
                /\ closeCalls' = closeCalls
                /\ openCalls' = openCalls]_vars

\* The first open failed, the second succeeded, and the close of the
\* second report has just failed.
C11_Witness ==
    /\ lastOp = "CloseReport"
    /\ lastRemote = "failed"
    /\ lastErr = ErrCollector
    /\ prevReport = <<ReportIDOf(2)>>
    /\ openCalls = 2
    /\ closeCalls = 1
    /\ Report = <<>>

\* ------------------------------------------------------------------ C12
\* C12 (as stated): when the measurement function returns an error, the
\* envelope Measure returns carries no TestKeys.
C12_NoTestKeysOnError ==
    (lastOp = "Measure" /\ lastErr # Nil) => measurement.TestKeys = Nil

\* C12 (amended): Measure returns the error of the measurement function
\* together with the envelope as the function left it: stamped with the
\* input and the current ReportID, and carrying TestKeys exactly when the
\* function assigned them, whether or not it then failed.
C12_EnvelopeAsFunctionLeftIt ==
    lastOp = "Measure" =>
        /\ lastErr = lastFn.err
        /\ measurement.Input \in Inputs
        /\ measurement.ReportID = ReportID
        /\ measurement.TestKeys = (IF lastFn.wrote THEN "testkeys" ELSE Nil)

\* The function assigned TestKeys and then failed, with a report open.
C12_Witness ==
    /\ lastOp = "Measure"
    /\ lastFn.wrote
    /\ lastErr = ErrMeasure
    /\ Report # <<>>
    /\ measurement.ReportID = Report[1]
    /\ measurement.TestKeys = "testkeys"

\* ------------------------------------------------------------------ C13
IsPrefix(a, b) == Len(a) <= Len(b) /\ SubSeq(b, 1, Len(a)) = a

RECURSIVE Flatten(_)
Flatten(ss) == IF ss = <<>> THEN <<>> ELSE Head(ss) \o Flatten(Tail(ss))

\* every record ends with a newline, and contains no other
NewlineTerminated(rec) ==
    /\ Len(rec) > 0
    /\ rec[Len(rec)] = Newline
    /\ \A i \in 1..(Len(rec) - 1) : rec[i] # Newline

\* C13: as long as only successful SaveMeasurement calls have written to
\* the file, it holds its prior content followed by the records of those
\* calls, in call order, each newline-terminated; a successful call appends
\* exactly the record of its measurement; no call truncates or rewrites
\* earlier content; SaveMeasurement never needs an open report, makes no
\* call to the collector and leaves the report handle unchanged.
C13_SaveAppendsRecords ==
    /\ [](/\ \A i \in 1..Len(saved) : NewlineTerminated(saved[i])
          /\ ~torn => file = file0 \o Flatten(saved))
    /\ [][IsPrefix(file, file')]_vars
    /\ [][(nops' = nops + 1 /\ lastOp' = "SaveMeasurement") =>
             /\ Report' = Report
             /\ <<openCalls, closeCalls, submitCalls>>' =
                    <<openCalls, closeCalls, submitCalls>>
             /\ lastErr' # ErrNotOpen
             /\ lastErr' = Nil =>
                    /\ file' = file \o <<Marshal(measurement), Newline>>
                    /\ Len(saved') = Len(saved) + 1]_vars

\* Two different records have been saved after the prior content, the
\* second with no report open.
C13_Witness ==
    /\ lastOp = "SaveMeasurement"
    /\ lastErr = Nil
    /\ Report = <<>>
    /\ file0 # <<>>
    /\ Len(saved) = 2
    /\ saved[1] # saved[2]
    /\ file = file0 \o saved[1] \o saved[2]

\* ------------------------------------------------------------------ C14
\* Ensure has returned / EnsureForSingleResource has returned.
EnsureReturned == rpc = "idle" /\ resOp = "Ensure"
SingleReturned == rpc = "idle" /\ resOp = "EnsureForSingleResource"

\* When the last call was made, every entry had a valid file / no entry
\* had a file / the entry had a file with another content than declared.
CacheWasValid == \A n \in Names : ValidFile(files0[n], n)
WorkDirWasEmpty == \A n \in Names : ~files0[n].exists
WasMismatched(n) == files0[n].exists /\ ~ValidFile(files0[n], n)

\* C14 (as stated): an Ensure called on a valid cache returns no error,
\* performs no fetch and leaves every file unchanged, and an Ensure called
\* on an empty working directory performs exactly one fetch per catalog
\* entry.
C14_OneFetchPerEntry ==
    /\ (resOp = "Ensure" /\ CacheWasValid) =>
            /\ resErr \in {NotReturned, Nil}
            /\ \A n \in Names : fetched[n] = 0
            /\ files = files0
    /\ (EnsureReturned /\ WorkDirWasEmpty) =>
            \A n \in Names : fetched[n] = 1

\* C14 (amended): an Ensure called on a valid cache returns no error,
\* performs no fetch and leaves every file unchanged, whatever the network
\* would answer; an Ensure called on an empty working directory performs at
\* most one fetch per catalog entry, exactly one per entry when it returns
\* no error (every file is then valid), and when it returns an error it has
\* stopped at the entry whose fetch or write failed.
C14_IdempotentOnValidCache ==
    /\ (resOp = "Ensure" /\ CacheWasValid) =>
            /\ resErr \in {NotReturned, Nil}
            /\ \A n \in Names : fetched[n] = 0
            /\ files = files0
    /\ resOp = "Ensure" => \A n \in Names : fetched[n] <= 1
    /\ (EnsureReturned /\ WorkDirWasEmpty /\ resErr = Nil) =>
            /\ \A n \in Names : fetched[n] = 1
            /\ \A n \in Names : ValidFile(files[n], n)
    /\ (EnsureReturned /\ WorkDirWasEmpty /\ resErr # Nil) =>
            /\ fetched[lastCall.name] = 1
            /\ lastCall.net # "ok" \/ lastCall.wr \in {"openfail", "partial"}
            /\ \A n \in Names :
                  (n # lastCall.name /\ fetched[n] = 1) => ValidFile(files[n], n)

\* The second call is an Ensure that found the cache its predecessor
\* left valid, and has returned.
C14_Witness ==
    /\ EnsureReturned
    /\ rops = 2
    /\ CacheWasValid
    /\ resErr = Nil
    /\ files = files0
    /\ \A n \in Names : fetched[n] = 0

\* ------------------------------------------------------------------ C15
\* C15 (as stated): when an entry's file exists with another content than
\* declared, the next Ensure fetches the entry again and, when fetch,
\* decompression and verification succeed, the file is valid afterwards.
C15_EnsureRestoresFile ==
    \A n \in Names :
        (EnsureReturned /\ WasMismatched(n)) =>
            /\ fetched[n] = 1
            /\ (lastCall.name = n /\ lastCall.wr # NotCalled) =>
                    ValidFile(files[n], n)

\* C15 (amended): when an entry's file exists with another content than
\* declared, the next EnsureForSingleResource call for the entry with the
\* real comparator (the one Ensure makes when it reaches the entry) detects
\* the mismatch and fetches the entry again, once; when fetch,
\* decompression, verification and the final write succeed the file is
\* valid afterwards; an Ensure that returns no error has fetched and
\* restored every such entry.
C15_CallRestoresFile ==
    /\ \A n \in Names :
          (/\ resOp \in {"Ensure", "EnsureForSingleResource"}
           /\ lastCall.name = n
           /\ lastCall.eq = "real"
           /\ WasMismatched(n)) =>
                /\ fetched[n] = 1
                /\ lastCall.net # NotCalled
                /\ lastCall.wr = "ok" => ValidFile(files[n], n)
                /\ lastCall.wr = "ok" <=> resErr \in {Nil, NotReturned}
    /\ \A n \in Names :
          (EnsureReturned /\ resErr = Nil /\ WasMismatched(n)) =>
                fetched[n] = 1 /\ ValidFile(files[n], n)

\* An Ensure has restored a file that had a flipped byte.
C15_Witness ==
    /\ EnsureReturned
    /\ resErr = Nil
    /\ \E n \in Names :
          /\ files0[n] = FileOf(FlipByte(Published(n)))
          /\ fetched[n] = 1
          /\ files[n] = FileOf(Published(n))

\* ------------------------------------------------------------------ C16
\* The last call has returned and used the real comparator.
RealCallReturned ==
    EnsureReturned \/ (SingleReturned /\ lastCall.eq = "real")

\* C16 (as stated): after any call with the real comparator, failed or
\* not, every file of the working directory is complete and has the
\* declared digest.
C16_NoMismatchedFileEver ==
    RealCallReturned => \A n \in Names : files[n].exists => ValidFile(files[n], n)

\* C16 (amended): after a call with the real comparator that returns no
\* error, the file of every entry the call was for is valid; a call never
\* writes content other than the declared one, except that a failing write
\* can leave the first part of it: after any call each file is as it was
\* before the call (missing and mismatched files included), or valid, or
\* the file a failed write was writing.
C16_WritesOnlyVerified ==
    /\ (EnsureReturned /\ resErr = Nil) =>
            \A n \in Names : ValidFile(files[n], n)
    /\ (SingleReturned /\ lastCall.eq = "real" /\ resErr = Nil) =>
            ValidFile(files[lastCall.name], lastCall.name)
    /\ resOp \in {"Ensure", "EnsureForSingleResource"} =>
            \A n \in Names :
                \/ files[n] = files0[n]
                \/ ValidFile(files[n], n)
                \/ /\ n = lastCall.name
                   /\ lastCall.wr = "partial"
                   /\ resErr = ErrWrite
                   /\ files[n] = FileOf(SubSeq(Published(n), 1, 1))

\* A call for a file with a flipped byte has failed in the fetch and has
\* left the file as it was.
C16_Witness ==
    /\ RealCallReturned
    /\ resErr = ErrFetch
    /\ files = files0
    /\ files[lastCall.name] = FileOf(FlipByte(Published(lastCall.name)))

\* ------------------------------------------------------------------ C17
\* C17: with the always-false comparator EnsureForSingleResource always
\* calls FetchAndVerify, also when the local file is valid, always returns
\* an error, never calls WriteFile and leaves every file as it was; when
\* fetch, decompression and read succeed (the content fetched is the
\* published one) the error is the digest mismatch.
C17_FalseComparatorAlwaysFails ==
    (SingleReturned /\ lastCall.eq = "false") =>
        /\ fetched[lastCall.name] = 1
        /\ lastCall.net # NotCalled
        /\ resErr # Nil
        /\ lastCall.wr = NotCalled
        /\ files = files0
        /\ (lastCall.net = "ok" /\ lastCall.gz = "real" /\ lastCall.rd = "real") =>
                resErr = ErrMismatch

\* The local file was valid, the published content was fetched and read,
\* and the call failed with the digest mismatch.
C17_Witness ==
    /\ SingleReturned
    /\ lastCall.eq = "false"
    /\ ValidFile(files0[lastCall.name], lastCall.name)
    /\ lastCall.net = "ok"
    /\ lastCall.rd = "real"
    /\ resErr = ErrMismatch
    /\ files = files0

\* ------------------------------------------------------------------ C18
\* C18: when FetchAndVerify fails (the context is cancelled, the request
\* fails or the body has another digest), the injected decompressor fails
\* or the injected read fails, EnsureForSingleResource returns that error,
\* does not call WriteFile and leaves every file as it was before the
\* call; inside Ensure, the file of the entry is as it was when Ensure was
\* called and Ensure returns the error.
C18_FailureWritesNothing ==
    (/\ resOp \in {"Ensure", "EnsureForSingleResource"}
     /\ \/ lastCall.net \in {"cancelled", "neterr", "tampered"}
        \/ lastCall.gz = "fail"
        \/ lastCall.rd = "fail") =>
            /\ rpc = "idle"
            /\ resErr = (CASE lastCall.net = "cancelled" -> ErrCanceled
                           [] lastCall.net \in {"neterr", "tampered"} -> ErrFetch
                           [] lastCall.gz = "fail" -> ErrGzip
                           [] OTHER -> ErrRead)
            /\ lastCall.wr = NotCalled
            /\ files[lastCall.name] = files0[lastCall.name]
            /\ resOp = "EnsureForSingleResource" => files = files0

\* The entry had no file, the context was cancelled: the call has failed
\* and there is still no file.
C18_Witness ==
    /\ SingleReturned
    /\ lastCall.net = "cancelled"
    /\ resErr = ErrCanceled
    /\ ~files0[lastCall.name].exists
    /\ files = files0

\* ------------------------------------------------------------------ C19
\* measure has returned an error.
MeasureFailed == mpc = "returned" /\ retErr # Nil

\* C19: when the target-list retrieval fails, measure returns that error
\* at once: measureTargets is not called, no worker is started, no probe
\* runs, no progress and no data-usage event is emitted and
\* measurement.TestKeys stays unset, so the envelope Experiment.Measure
\* returns next to the error carries no results.  A retrieval under a
\* context that is done cannot but fail, and a failed retrieval is the only
\* way measure returns an error.
C19_QueryFailureAborts ==
    /\ [](MeasureFailed =>
            /\ retErr = ErrQuery
            /\ mtctx = Nil
            /\ spawned = 0
            /\ \A w \in Workers : wpc[w] = "none" /\ wkt[w] = 0
            /\ probed = <<>>
            /\ targetresults = <<>>
            /\ completed = 0
            /\ progress = <<>>
            /\ dataUsage = <<>>
            /\ testKeys = NilTestKeys)
    /\ [][(mpc = "query" /\ mpc' # "query" /\ ~QueryCanSucceed) =>
                (mpc' = "returned" /\ retErr' = ErrQuery)]_vars
    /\ [][MeasureFailed => UNCHANGED <<callervars, wg, rcvars, workervars,
                                        ghostvars>>]_vars

\* The retrieval has failed for a list of three targets, and the deadline
\* had not expired.
C19_Witness ==
    /\ MeasureFailed
    /\ retErr = ErrQuery
    /\ Cardinality(targets) = 3
    /\ ~timerFired
    /\ ~origDone

\* ------------------------------------------------------------------ C20
\* Workers whose probe is in flight, and workers that have been started.
InFlight == {w \in Workers : wpc[w] = "inflight"}
Started == {w \in Workers : wpc[w] # "none"}

\* C20: in every state of a measureTargets call at most 2 probes are in
\* flight, whatever the number of targets; the spawning loop starts exactly
\* 2 workers, one per iteration, before the first target is sent, also when
\* there are fewer than 2 targets (0 or 1).
C20_TwoWorkers ==
    /\ Cardinality(InFlight) <= 2
    /\ InFlight \subseteq Started
    /\ Cardinality(Started) = spawned
    /\ spawned <= 2
    /\ (mpc \in {"send", "wait", "fill", "usage"} \/ PastBarrier) =>
            Cardinality(Started) = 2
    /\ mpc \in {"idle", "query", "begin"} => Cardinality(Started) = 0

\* With a single target, one of the two workers started probes it while
\* the other has nothing to do.
C20_Witness ==
    /\ Cardinality(targets) = 1
    /\ mpc = "wait"
    /\ Cardinality(Started) = 2
    /\ Cardinality(InFlight) = 1
    /\ \E w \in Workers : wpc[w] \in {"recv", "exit"}

\* ------------------------------------------------------------------ C21
\* The fractions the progress events emitted so far carry.
Fractions == {progress[i] : i \in 1..Len(progress)}

\* C21: at every moment the progress events emitted carry pairwise
\* different fractions k/N with k in 1..N (none exceeds 1.0) and there are
\* at most N of them; once the barrier is passed with N > 0 there are
\* exactly N events and their fractions are exactly 1/N, 2/N, ..., N/N, in
\* whatever order the workers emitted them.
C21_ProgressFractionsOnce ==
    /\ Len(progress) <= N
    /\ Cardinality(Fractions) = Len(progress)
    /\ Fractions \subseteq {Percentage(k, N) : k \in 1..N}
    /\ \A i \in 1..Len(progress) : progress[i][1] <= progress[i][2]
    /\ (PastBarrier /\ N > 0) =>
            /\ Len(progress) = N
            /\ Fractions = {Percentage(k, N) : k \in 1..N}

\* Three targets, the barrier is passed, and the events were emitted out
\* of order: 2/3, then 3/3, then 1/3.
C21_Witness ==
    /\ PastBarrier
    /\ N = 3
    /\ progress = <<Percentage(2, 3), Percentage(3, 3), Percentage(1, 3)>>

\* ------------------------------------------------------------------ C22
\* Every worker has left its receive loop.
AllExited == \A w \in Workers : wpc[w] = "exit"

\* C22: provided every probe returns and every goroutine that can run
\* does, a measureTargets call started with any number of targets hands
\* every target over (the submitting loop is never blocked for ever),
\* closes the channel, and then both workers leave their receive loop, for
\* good; a worker leaves only after the close, with no target in hand, and
\* measureTargets returns.
C22_WorkersExit ==
    /\ (mpc = "begin") ~> (unsent = {} /\ chClosed)
    /\ (mpc = "begin") ~> AllExited
    /\ (mpc = "begin") ~> (mpc = "returned" /\ AllExited)
    /\ [](AllExited => [](AllExited))
    /\ [](\A w \in Workers : wpc[w] = "exit" =>
              (chClosed /\ unsent = {} /\ wkt[w] = 0))

\* More targets than workers: all were handed over and both workers have
\* left their loop.
C22_Witness ==
    /\ N = MaxTargets
    /\ N > parallelism
    /\ chClosed
    /\ AllExited
    /\ DOMAIN targetresults = targets

====
